---- MODULE Spec2Model ----
(***************************************************************************)
(* Model of main.py: the playlist downloader.                              *)
(*                                                                         *)
(*   download_ffmpeg         provisioning of the ffmpeg binary             *)
(*   read_json_file          loading of playlists.json                     *)
(*   extract_playlist_links  scraping of the playlist page                 *)
(*   download_audio/_video   the per-video download loops                  *)
(*   module-level code       the driver                                    *)
(*                                                                         *)
(* The environment (the file system under the ffmpeg folder, the answer    *)
(* of the network, the content of playlists.json, the playlist page, the   *)
(* videos whose download raises) is drawn from bounded sets.               *)
(***************************************************************************)
EXTENDS Integers, Sequences, FiniteSets, TLC

VARIABLES
    pc,             \* position of the running code
    fs,             \* the file system: the set of paths of the files that exist
    ffmpeg_path,    \* module-level ffmpeg_path (line 178)
    ensureLog,      \* one record per call of download_ffmpeg that was made
    printed,        \* the lines printed by the module-level code, read_json_file
                    \* and extract_playlist_links, in order
    configFile,     \* the content of playlists.json when it was opened
    playlist_data,  \* module-level playlist_data (line 181)
    idx,            \* position of the driver's for loop in playlist_data
    videos,         \* module-level videos (line 188)
    events,         \* the calls the driver made, in order
    lastFetch,      \* the download_audio / download_video call of the current playlist
    page,           \* what requests.get(url) answers (extraction)
    extracted,      \* outcome of extract_playlist_links(page)
    fetchIn,        \* input of a download_audio / download_video call
    fetchOut        \* its outcome

vars == <<pc, fs, ffmpeg_path, ensureLog, printed, configFile, playlist_data,
          idx, videos, events, lastFetch, page, extracted, fetchIn, fetchOut>>

(***************************************************************************)
(* Bounds of the model.                                                    *)
(***************************************************************************)
MaxDepth == 2       \* deepest directory level below the ffmpeg folder
MaxCalls == 2       \* calls of download_ffmpeg in a row (SpecEnsure)
MaxPlaylists == 2   \* entries of playlists.json
MaxItems == 2       \* playlist item records of a page (SpecExtract)
MaxVideos == 3      \* entries handed to a download routine (SpecFetch)
MaxDriverItems == 1 \* playlist item records of a page fetched by the driver
MaxScripts == 2     \* script elements of a page

(***************************************************************************)
(* Python values.                                                          *)
(***************************************************************************)
None == <<>>                    \* None: falsy, and no directory path
NoRaise == "none"               \* the call returned

(***************************************************************************)
(* The file system.  A path is the sequence of its components.             *)
(***************************************************************************)
ffmpeg_folder == "ffmpeg_bin"
ffmpeg_zip == <<"ffmpeg.zip">>
ExeNames == {"ffmpeg.exe", "ffmpeg"}
SubDir == "sub"

RECURSIVE DirAt(_, _)
DirAt(folder, d) == IF d = 0 THEN <<folder>> ELSE Append(DirAt(folder, d - 1), SubDir)

join(dir, name) == Append(dir, name)
exists(fsys, path) == path \in fsys

\* An archive member: a file name at a directory level of the archive.
ArchiveEntries == [depth : 0..MaxDepth, name : ExeNames]
Archives == {E \in SUBSET ArchiveEntries : Cardinality(E) <= 1}

extractall(fsys, folder, entries) ==
    fsys \cup {join(DirAt(folder, e.depth), e.name) : e \in entries}

\* os.walk(folder), top down: one (root, files) pair per directory.
walk(fsys, folder) ==
    [i \in 1..(MaxDepth + 1) |->
        [root |-> DirAt(folder, i - 1),
         files |-> {n \in ExeNames : join(DirAt(folder, i - 1), n) \in fsys}]]

\* A faulty search: the folder searched is returned, not the directory of the match.
RECURSIVE FindBinary_ReturnsTop(_, _)
FindBinary_ReturnsTop(w, i) ==
    IF i > Len(w) THEN None
    ELSE IF "ffmpeg.exe" \in w[i].files \/ "ffmpeg" \in w[i].files THEN w[1].root
    ELSE FindBinary_ReturnsTop(w, i + 1)

\* Lines 40-45: the directory of the first match of the walk, or None.
RECURSIVE FindBinary(_, _)
FindBinary(w, i) ==
    IF i > Len(w) THEN None
    ELSE IF "ffmpeg.exe" \in w[i].files \/ "ffmpeg" \in w[i].files THEN w[i].root
    ELSE FindBinary(w, i + 1)

\* What the network answers to requests.get(ffmpeg_url): an error raised by
\* requests.get ("error"), an error raised while the body is streamed into
\* ffmpeg.zip ("stream_error"), a body that is no zip archive ("notzip"), a zip
\* archive that ZipFile opens and whose extraction raises BadZipFile after the
\* members entries were written ("corrupt"), or a zip archive ("zip").
NetAnswers ==
    {[kind |-> "error", entries |-> {}], [kind |-> "stream_error", entries |-> {}],
     [kind |-> "notzip", entries |-> {}]}
    \cup {[kind |-> "corrupt", entries |-> E] : E \in Archives}
    \cup {[kind |-> "zip", entries |-> E] : E \in Archives}

\* download_ffmpeg(folder) on file system fsys when the network answers net.
\* ret: the value returned; raised: the exception that left the function;
\* fs: the file system afterwards; net: the network calls made.
download_ffmpeg(folder, fsys, net) ==
    IF exists(fsys, join(<<folder>>, "ffmpeg.exe"))
    THEN [ret |-> <<folder>>, raised |-> NoRaise, fs |-> fsys, net |-> 0]
    ELSE IF net.kind = "error"
    THEN [ret |-> None, raised |-> "RequestException", fs |-> fsys, net |-> 1]
    ELSE IF net.kind = "stream_error"
    THEN [ret |-> None, raised |-> "RequestException", fs |-> fsys \cup {ffmpeg_zip},
          net |-> 1]
    ELSE IF net.kind = "notzip"
    THEN [ret |-> None, raised |-> "BadZipFile", fs |-> fsys \cup {ffmpeg_zip}, net |-> 1]
    ELSE IF net.kind = "corrupt"
    THEN [ret |-> None, raised |-> "BadZipFile",
          fs |-> extractall(fsys \cup {ffmpeg_zip}, folder, net.entries), net |-> 1]
    ELSE LET unpacked == extractall(fsys, folder, net.entries) \ {ffmpeg_zip}
         IN  [ret |-> FindBinary(walk(unpacked, folder), 1), raised |-> NoRaise,
              fs |-> unpacked, net |-> 1]

\* The file systems a run may start from.
InitFs ==
    {{join(DirAt(ffmpeg_folder, e.depth), e.name) : e \in E} : E \in Archives}

(***************************************************************************)
(* JSON values as Python holds them after json.loads: a tag and a value.   *)
(* A number is an integer.  The value of a dict is the sequence of its     *)
(* <<key, value>> pairs, in insertion order, the keys distinct.            *)
(***************************************************************************)
JStr(s) == [t |-> "str", v |-> s]
JInt(n) == [t |-> "int", v |-> n]
JBool(b) == [t |-> "bool", v |-> b]
JDict(d) == [t |-> "dict", v |-> d]
JList(l) == [t |-> "list", v |-> l]
JNull == [t |-> "null", v |-> "null"]
EmptyDict == JDict(<<>>)
Obj1(k, x) == JDict(<<<<k, x>>>>)
Raise(e) == [t |-> "raise", v |-> e]

\* k in d and d[k], for the pairs d of a dict.
has_key(d, k) == \E i \in 1..Len(d) : d[i][1] = k
value_of(d, k) == d[CHOOSE i \in 1..Len(d) : d[i][1] = k][2]

\* x.get(k, default): only a dict has get; an exception already raised goes on.
get(x, k, default) ==
    IF x.t = "raise" THEN x
    ELSE IF x.t # "dict" THEN Raise("AttributeError")
    ELSE IF has_key(x.v, k) THEN value_of(x.v, k) ELSE default

RECURSIVE HasChar(_, _)
HasChar(s, c) == IF s = "" THEN FALSE ELSE Head(s) = c \/ HasChar(Tail(s), c)

\* The characters of s as repr writes them between quotes q.  The strings of
\* the model hold no control character but newline, return and tab.
RECURSIVE Escaped(_, _)
Escaped(s, q) ==
    IF s = "" THEN ""
    ELSE LET c == Head(s) IN
         (CASE c = "\\" -> "\\\\"
            [] c = q -> "\\" \o q
            [] c = "\n" -> "\\n"
            [] c = "\r" -> "\\r"
            [] c = "\t" -> "\\t"
            [] OTHER -> c) \o Escaped(Tail(s), q)

\* repr of a str: double quotes when it holds ' and no ", single quotes otherwise.
ReprStr(s) ==
    LET q == IF HasChar(s, "'") /\ ~HasChar(s, "\"") THEN "\"" ELSE "'"
    IN  q \o Escaped(s, q) \o q

\* repr of a JSON value, of the items of a list from i on, of the pairs of a
\* dict from i on.
RECURSIVE PyRepr(_), ReprItems(_, _), ReprPairs(_, _)
PyRepr(j) ==
    CASE j.t = "str" -> ReprStr(j.v)
      [] j.t = "int" -> ToString(j.v)
      [] j.t = "bool" -> IF j.v THEN "True" ELSE "False"
      [] j.t = "null" -> "None"
      [] j.t = "list" -> "[" \o ReprItems(j.v, 1) \o "]"
      [] j.t = "dict" -> "{" \o ReprPairs(j.v, 1) \o "}"
ReprItems(l, i) ==
    IF i > Len(l) THEN ""
    ELSE PyRepr(l[i]) \o (IF i < Len(l) THEN ", " ELSE "") \o ReprItems(l, i + 1)
ReprPairs(d, i) ==
    IF i > Len(d) THEN ""
    ELSE ReprStr(d[i][1]) \o ": " \o PyRepr(d[i][2])
            \o (IF i < Len(d) THEN ", " ELSE "") \o ReprPairs(d, i + 1)

\* The text an f-string puts for j: str(j), a string as it is, any other
\* value as its repr.
PyStr(j) == IF j.t = "str" THEN j.v ELSE PyRepr(j)

\* A faulty test: the identifier is never tested.
IsTruthy_Always(j) == TRUE

\* Python's truth value of a JSON value.
IsTruthy(j) ==
    CASE j.t = "str" -> j.v # ""
      [] j.t = "null" -> FALSE
      [] j.t = "bool" -> j.v
      [] j.t = "int" -> j.v # 0
      [] OTHER -> Len(j.v) > 0

(***************************************************************************)
(* extract_playlist_links.                                                 *)
(***************************************************************************)
WatchUrl == "https://www.youtube.com/watch?v="
NoTitle == "No Title"

\* Lines 101-108 for one item: <<>> when the item is skipped, <<entry>> when
\* it is appended, a raised exception otherwise.  The title of an entry is
\* the value found under simpleText, whatever its type.
ItemEntry(item) ==
    LET video_renderer == get(item, "playlistPanelVideoRenderer", EmptyDict)
        title == get(get(video_renderer, "title", EmptyDict), "simpleText", JStr(NoTitle))
        video_id == get(get(get(video_renderer, "navigationEndpoint", EmptyDict),
                            "watchEndpoint", EmptyDict), "videoId", JStr(""))
    IN  IF title.t = "raise" THEN title
        ELSE IF video_id.t = "raise" THEN video_id
        ELSE IF IsTruthy(video_id)
        THEN JList(<<[title |-> title, link |-> WatchUrl \o PyStr(video_id)]>>)
        ELSE JList(<<>>)

\* Lines 99-110: the loop over playlist_items, from item i on, acc the videos so far.
RECURSIVE CollectVideos(_, _, _)
CollectVideos(items, i, acc) ==
    IF i > Len(items) THEN JList(acc)
    ELSE LET e == ItemEntry(items[i])
         IN  IF e.t = "raise" THEN e ELSE CollectVideos(items, i + 1, acc \o e.v)

\* Lines 79-84: the captured text of the first script whose string holds the
\* marker and matches the pattern; None when there is none.
RECURSIVE FirstBlob(_, _)
FirstBlob(script_tags, i) ==
    IF i > Len(script_tags) THEN None
    ELSE IF script_tags[i].text = "match" THEN <<script_tags[i].blob>>
    ELSE FirstBlob(script_tags, i + 1)

\* Lines 91-97: the navigation to the playlist items.
PlaylistItems(data) ==
    get(get(get(get(get(data, "contents", EmptyDict), "twoColumnWatchNextResults", EmptyDict),
                "playlist", EmptyDict), "playlist", EmptyDict), "contents", JList(<<>>))

\* extract_playlist_links(url) when requests.get(url) answers pg.  Line 100
\* on a value that is no list: None, a number and a boolean are not iterable
\* (TypeError); the items of a str or a dict are strings, which have no get.
\* ret: the list returned; raised: the exception that left the function;
\* out: the diagnostic printed.
extract_playlist_links(pg) ==
    IF pg.status # "ok"
    THEN [ret |-> <<>>, raised |-> NoRaise, out |-> "Error fetching the webpage"]
    ELSE LET found == FirstBlob(pg.scripts, 1) IN
         IF found = None
         THEN [ret |-> <<>>, raised |-> NoRaise, out |-> "No playlist data found."]
         ELSE IF ~found[1].valid
         THEN [ret |-> <<>>, raised |-> NoRaise, out |-> "Error decoding JSON data"]
         ELSE LET playlist_items == PlaylistItems(found[1].data) IN
              IF playlist_items.t = "raise"
              THEN [ret |-> <<>>, raised |-> playlist_items.v, out |-> ""]
              ELSE IF playlist_items.t \in {"null", "int", "bool"}
              THEN [ret |-> <<>>, raised |-> "TypeError", out |-> ""]
              ELSE IF playlist_items.t # "list"
              THEN [ret |-> <<>>,
                    raised |-> IF IsTruthy(playlist_items) THEN "AttributeError" ELSE NoRaise,
                    out |-> ""]
              ELSE LET vids == CollectVideos(playlist_items.v, 1, <<>>) IN
                   IF vids.t = "raise"
                   THEN [ret |-> <<>>, raised |-> vids.v, out |-> ""]
                   ELSE [ret |-> vids.v, raised |-> NoRaise, out |-> ""]

(***************************************************************************)
(* The pages the network may answer with.                                  *)
(***************************************************************************)
SeqsUpTo(S, n) == UNION {[1..k -> S] : k \in 0..n}

NavKeys == <<"contents", "twoColumnWatchNextResults", "playlist", "playlist", "contents">>

\* Nested dicts along NavKeys[i..j], with last below NavKeys[j].
RECURSIVE ChainTo(_, _, _)
ChainTo(i, j, last) == IF i > j THEN last ELSE Obj1(NavKeys[i], ChainTo(i + 1, j, last))

TitleOpts == {<<>>, <<"Song A">>}
IdOpts == {<<>>, <<"">>, <<"abc123">>, <<"xyz789">>}

TitlePart(t) == IF t = <<>> THEN <<>> ELSE <<<<"title", Obj1("simpleText", JStr(t[1]))>>>>
IdPart(v) ==
    IF v = <<>> THEN <<>>
    ELSE <<<<"navigationEndpoint", Obj1("watchEndpoint", Obj1("videoId", JStr(v[1])))>>>>
MkItem(t, v) == Obj1("playlistPanelVideoRenderer", JDict(TitlePart(t) \o IdPart(v)))

\* An item record whose simpleText and videoId hold the JSON values title and id.
ItemOf(title, id) ==
    Obj1("playlistPanelVideoRenderer",
         JDict(<<<<"title", Obj1("simpleText", title)>>,
                 <<"navigationEndpoint", Obj1("watchEndpoint", Obj1("videoId", id))>>>>))

\* Item records of the shape the page normally has: title and identifier may be absent.
WellFormedItems == {MkItem(t, v) : t \in TitleOpts, v \in IdOpts} \cup {EmptyDict}
\* Item records where a key holds a value of another type than the page
\* normally has.
MalformedItems ==
    {JNull,
     Obj1("playlistPanelVideoRenderer", JNull),
     Obj1("playlistPanelVideoRenderer", Obj1("title", JNull)),
     Obj1("playlistPanelVideoRenderer", Obj1("navigationEndpoint", JNull)),
     ItemOf(JNull, JList(<<JStr("a")>>)),
     ItemOf(JList(<<>>), Obj1("k", JStr("v"))),
     ItemOf(EmptyDict, JInt(123)),
     ItemOf(JInt(7), JBool(TRUE)),
     ItemOf(JStr("/tmp/y"), JInt(0))}
AllItems == WellFormedItems \cup MalformedItems

\* Values under the last key of the path that are no list.
OddContents == {JStr(""), JStr("ab"), JInt(7), JBool(FALSE), EmptyDict, Obj1("k", JNull)}

InvalidBlob == [valid |-> FALSE, data |-> JNull]
DecoyBlob ==
    [valid |-> TRUE,
     data |-> ChainTo(1, Len(NavKeys), JList(<<MkItem(<<"Decoy">>, <<"decoy00">>)>>))]

ListBlobs(I, n) ==
    {[valid |-> TRUE, data |-> ChainTo(1, Len(NavKeys), JList(s))] : s \in SeqsUpTo(I, n)}
Blobs(I, n) ==
    {InvalidBlob}
    \cup {[valid |-> TRUE, data |-> ChainTo(1, j - 1, EmptyDict)] : j \in 1..Len(NavKeys)}
    \cup {[valid |-> TRUE, data |-> ChainTo(1, j, JNull)] : j \in 1..Len(NavKeys)}
    \cup {[valid |-> TRUE, data |-> ChainTo(1, Len(NavKeys), x)] : x \in OddContents}
    \cup ListBlobs(I, n)

\* A script element: tag.string is None ("none"), lacks the marker ("other"),
\* holds the marker but not the pattern ("nomatch"), or matches ("match").
\* The blob of a matching script is the text the pattern captures, group(1):
\* either no valid JSON, or the JSON value it parses to.
TagKinds == {"none", "other", "nomatch", "match"}
FirstMatch(kinds) ==
    IF \E i \in 1..Len(kinds) : kinds[i] = "match"
    THEN CHOOSE i \in 1..Len(kinds) :
            kinds[i] = "match" /\ \A j \in 1..(i - 1) : kinds[j] # "match"
    ELSE 0
MkPage(kinds, blob) ==
    [status |-> "ok",
     scripts |-> [i \in 1..Len(kinds) |->
        [text |-> kinds[i],
         blob |-> IF kinds[i] # "match" THEN InvalidBlob
                  ELSE IF i = FirstMatch(kinds) THEN blob ELSE DecoyBlob]]]
ErrorPage == [status |-> "error", scripts |-> <<>>]

\* The scripts of the pages that are combined with every blob.
ScriptShapes == {<<"match">>, <<"other", "match">>, <<"match", "match">>}

Pages == {ErrorPage}
    \cup {MkPage(k, InvalidBlob) : k \in SeqsUpTo(TagKinds, MaxScripts)}
    \cup {MkPage(k, b) : k \in ScriptShapes, b \in Blobs(AllItems, MaxItems)}

(***************************************************************************)
(* download_audio and download_video.                                      *)
(***************************************************************************)
RECURSIVE LastChar(_)
LastChar(s) == IF Tail(s) = "" THEN s ELSE LastChar(Tail(s))

\* os.path.join(a, b) of posixpath: b alone when it starts with the separator,
\* else a and b, with a separator between them unless a is empty or ends with one.
path_join(a, b) ==
    IF b # "" /\ Head(b) = "/" THEN b
    ELSE IF a = "" \/ LastChar(a) = "/" THEN a \o b
    ELSE a \o "/" \o b

\* os.path.join(download_folder, f"{title}.%(ext)s").
OutTmpl(download_folder, title) == path_join(download_folder, PyStr(title) \o ".%(ext)s")

\* A faulty loop: the first download that raises ends the loop.
RECURSIVE AudioLoop_StopsOnError(_, _, _, _, _)
AudioLoop_StopsOnError(vs, location, download_folder, fails, acc) ==
    LET i == Len(acc) + 1 IN
    IF i > Len(vs) \/ (i - 1) \in fails THEN acc
    ELSE AudioLoop_StopsOnError(vs, location, download_folder, fails,
            Append(acc, [url |-> vs[i].link,
                         format |-> "bestaudio/best",
                         outtmpl |-> OutTmpl(download_folder, vs[i].title),
                         post |-> "mp3/192",
                         ffmpeg_location |-> location,
                         result |-> IF i \in fails THEN "Error downloading audio"
                                    ELSE "Downloaded audio"]))

\* Lines 127-147: the loop from video i on; fails are the positions whose
\* ydl.download raises; acc holds the ydl.download calls made so far.
RECURSIVE AudioLoop(_, _, _, _, _)
AudioLoop(vs, location, download_folder, fails, acc) ==
    LET i == Len(acc) + 1 IN
    IF i > Len(vs) THEN acc
    ELSE AudioLoop(vs, location, download_folder, fails,
            Append(acc, [url |-> vs[i].link,
                         format |-> "bestaudio/best",
                         outtmpl |-> OutTmpl(download_folder, vs[i].title),
                         post |-> "mp3/192",
                         ffmpeg_location |-> location,
                         result |-> IF i \in fails THEN "Error downloading audio"
                                    ELSE "Downloaded audio"]))

\* Lines 157-174.
RECURSIVE VideoLoop(_, _, _, _, _)
VideoLoop(vs, location, download_folder, fails, acc) ==
    LET i == Len(acc) + 1 IN
    IF i > Len(vs) THEN acc
    ELSE VideoLoop(vs, location, download_folder, fails,
            Append(acc, [url |-> vs[i].link,
                         format |-> "bestvideo+bestaudio/best",
                         outtmpl |-> OutTmpl(download_folder, vs[i].title),
                         post |-> "mp4",
                         ffmpeg_location |-> location,
                         result |-> IF i \in fails THEN "Error downloading video"
                                    ELSE "Downloaded video"]))

\* attempts: the ydl.download calls, in order; raised: the exception that left
\* the routine; folder: the directory made sure to exist.
download_audio(vs, location, fails) ==
    [attempts |-> AudioLoop(vs, location, "music", fails, <<>>),
     raised |-> NoRaise, folder |-> "music"]
download_video(vs, location, fails) ==
    [attempts |-> VideoLoop(vs, location, "videos", fails, <<>>),
     raised |-> NoRaise, folder |-> "videos"]

\* The entries handed to the download routines: the title is any JSON value.
Entries ==
    {[title |-> JStr("Song A"), link |-> WatchUrl \o "abc123"],
     [title |-> JStr(NoTitle), link |-> WatchUrl \o "xyz789"],
     [title |-> JNull, link |-> WatchUrl \o "abc123"],
     [title |-> JStr("/etc/x"), link |-> WatchUrl \o "xyz789"],
     [title |-> JList(<<JStr("a")>>), link |-> WatchUrl \o "abc123"],
     [title |-> Obj1("k", JStr("v")), link |-> WatchUrl \o "xyz789"],
     [title |-> JInt(7), link |-> WatchUrl \o "abc123"]}

(***************************************************************************)
(* read_json_file.                                                         *)
(***************************************************************************)
\* The objects of playlists.json, as written in the file: without flag, with
\* either flag, and without link.
ConfigObjects ==
    {[link |-> "https://x/playlist1"],
     [link |-> "https://x/playlist1", with_video |-> "true"],
     [link |-> "https://x/playlist2", with_video |-> "false"],
     [with_video |-> "true"]}

ConfigFiles ==
    {[kind |-> "missing", objs |-> <<>>], [kind |-> "invalid", objs |-> <<>>],
     [kind |-> "undecodable", objs |-> <<>>]}
    \cup {[kind |-> "json", objs |-> s] : s \in SeqsUpTo(ConfigObjects, MaxPlaylists)}

\* json.load of one object: the literals true and false become booleans.
ParseObject(o) ==
    [k \in DOMAIN o |-> IF o[k] \in {"true", "false"} THEN o[k] = "true" ELSE o[k]]

\* read_json_file(file_name) when the file is f: missing, text that is no
\* JSON ("invalid"), bytes that are no text in the encoding of open, so that
\* the read inside json.load raises UnicodeDecodeError ("undecodable"), or a
\* JSON array of objects.
read_json_file(f) ==
    IF f.kind = "missing"
    THEN [ret |-> <<>>, raised |-> NoRaise, out |-> "File playlists.json not found."]
    ELSE IF f.kind = "invalid"
    THEN [ret |-> <<>>, raised |-> NoRaise, out |-> "Error decoding JSON file playlists.json"]
    ELSE IF f.kind = "undecodable"
    THEN [ret |-> <<>>, raised |-> "UnicodeDecodeError", out |-> ""]
    ELSE [ret |-> [i \in 1..Len(f.objs) |-> ParseObject(f.objs[i])],
          raised |-> NoRaise, out |-> ""]

(***************************************************************************)
(* The driver: the module-level code, lines 177-194.                       *)
(***************************************************************************)
FailedNotice == "Failed to set up FFmpeg."

\* A faulty default: an omitted flag counts as true.
with_video_of_DefaultTrue(playlist) ==
    IF "with_video" \in DOMAIN playlist THEN playlist["with_video"] ELSE TRUE

\* Line 185: playlist.get('with_video', False).
with_video_of(playlist) ==
    IF "with_video" \in DOMAIN playlist THEN playlist["with_video"] ELSE FALSE

\* A faulty dispatch: the branches are swapped.
FetchOp_Swapped(with_video) == IF with_video THEN "download_audio" ELSE "download_video"

\* Lines 189-192: the routine the flag selects.
FetchOp(with_video) == IF with_video THEN "download_video" ELSE "download_audio"

RunFetch(op, vs, location, fails) ==
    IF op = "download_video" THEN download_video(vs, location, fails)
    ELSE download_audio(vs, location, fails)

\* The pages the driver's requests meet.
DriverItems ==
    {MkItem(<<"Song A">>, <<"abc123">>), ItemOf(JStr("/etc/x"), JList(<<JStr("a")>>)), JNull}
DriverPages ==
    {ErrorPage, MkPage(<<"match">>, InvalidBlob),
     MkPage(<<"match">>, [valid |-> TRUE, data |-> ChainTo(1, 1, JNull)])}
    \cup {MkPage(<<"match">>, b) : b \in ListBlobs(DriverItems, MaxDriverItems)}

Say(out, line) == IF line = "" THEN out ELSE Append(out, line)

\* Line 186.
ProcessingLine(url, with_video) ==
    "Processing playlist: " \o url \o " | With video: " \o PyStr(JBool(with_video))

\* The file systems the driver starts from: nothing there, the executable
\* directly in the folder, a binary one level down.
DriverFs ==
    {{}, {join(DirAt(ffmpeg_folder, 0), "ffmpeg.exe")}, {join(DirAt(ffmpeg_folder, 1), "ffmpeg")}}

Init ==
    /\ pc = "start"
    /\ fs \in DriverFs
    /\ ffmpeg_path = None
    /\ ensureLog = <<>>
    /\ printed = <<>>
    /\ configFile = <<>>
    /\ playlist_data = <<>>
    /\ idx = 0
    /\ videos = <<>>
    /\ events = <<>>
    /\ lastFetch = <<>>
    /\ page = <<>>
    /\ extracted = <<>>
    /\ fetchIn = <<>>
    /\ fetchOut = <<>>

\* Lines 177-179 and 193-194: provision the binary, then go on or give up.
Provision ==
    /\ pc = "start"
    /\ \E net \in NetAnswers :
        LET r == download_ffmpeg(ffmpeg_folder, fs, net) IN
        /\ fs' = r.fs
        /\ ensureLog' = Append(ensureLog, [ret |-> r.ret, raised |-> r.raised, net |-> r.net])
        /\ ffmpeg_path' = r.ret
        /\ pc' = IF r.raised # NoRaise THEN "crashed"
                 ELSE IF r.ret # None THEN "read" ELSE "aborted"
        /\ printed' = IF r.raised = NoRaise /\ r.ret = None
                      THEN Append(printed, FailedNotice) ELSE printed
    /\ UNCHANGED <<configFile, playlist_data, idx, videos, events, lastFetch,
                   page, extracted, fetchIn, fetchOut>>

\* Lines 180-181: read playlists.json.
ReadConfig ==
    /\ pc = "read"
    /\ \E f \in ConfigFiles :
        LET r == read_json_file(f) IN
        /\ configFile' = <<f>>
        /\ playlist_data' = r.ret
        /\ printed' = Say(printed, r.out)
        /\ pc' = IF r.raised # NoRaise THEN "crashed" ELSE "loop"
    /\ idx' = 1
    /\ events' = Append(events, [op |-> "read_json_file", i |-> 0, url |-> ""])
    /\ UNCHANGED <<fs, ffmpeg_path, ensureLog, videos, lastFetch,
                   page, extracted, fetchIn, fetchOut>>

\* Lines 183-188: the next playlist's link and flag are read and printed, its
\* page is extracted.
ExtractLinks ==
    /\ pc = "loop"
    /\ idx <= Len(playlist_data)
    /\ LET playlist == playlist_data[idx] IN
       IF "link" \notin DOMAIN playlist
       THEN /\ pc' = "crashed"
            /\ UNCHANGED <<videos, events, printed>>
       ELSE \E pg \in DriverPages :
            LET r == extract_playlist_links(pg) IN
            /\ printed' = Say(Append(printed, ProcessingLine(playlist["link"],
                                                             with_video_of(playlist))),
                              r.out)
            /\ events' = Append(events, [op |-> "extract_playlist_links", i |-> idx,
                                         url |-> playlist["link"]])
            /\ pc' = IF r.raised # NoRaise THEN "crashed" ELSE "fetch"
            /\ videos' = IF r.raised # NoRaise THEN videos ELSE r.ret
    /\ lastFetch' = <<>>
    /\ UNCHANGED <<fs, ffmpeg_path, ensureLog, configFile, playlist_data, idx,
                   page, extracted, fetchIn, fetchOut>>

\* Lines 189-192: the download routine the flag selects runs on the videos.
Fetch ==
    /\ pc = "fetch"
    /\ LET op == FetchOp(with_video_of(playlist_data[idx])) IN
       \E fails \in SUBSET (1..Len(videos)) :
            LET r == RunFetch(op, videos, ffmpeg_path, fails) IN
            /\ lastFetch' = <<[op |-> op, i |-> idx, videos |-> videos,
                               ffmpeg_path |-> ffmpeg_path, out |-> r]>>
            /\ events' = Append(events, [op |-> op, i |-> idx,
                                         url |-> playlist_data[idx]["link"]])
            /\ pc' = IF r.raised # NoRaise THEN "crashed" ELSE "loop"
    /\ idx' = idx + 1
    /\ UNCHANGED <<fs, ffmpeg_path, ensureLog, printed, configFile, playlist_data, videos,
                   page, extracted, fetchIn, fetchOut>>

\* The for loop is exhausted: the process exits.
Finish ==
    /\ pc = "loop"
    /\ idx > Len(playlist_data)
    /\ pc' = "done"
    /\ UNCHANGED <<fs, ffmpeg_path, ensureLog, printed, configFile, playlist_data, idx,
                   videos, events, lastFetch, page, extracted, fetchIn, fetchOut>>

Next == Provision \/ ReadConfig \/ ExtractLinks \/ Fetch \/ Finish

Spec == Init /\ [][Next]_vars

(***************************************************************************)
(* download_ffmpeg called several times in a row on the same folder.       *)
(***************************************************************************)
InitEnsure ==
    /\ pc = "ensure"
    /\ fs \in InitFs
    /\ ffmpeg_path = None
    /\ ensureLog = <<>>
    /\ printed = <<>>
    /\ configFile = <<>>
    /\ playlist_data = <<>>
    /\ idx = 0
    /\ videos = <<>>
    /\ events = <<>>
    /\ lastFetch = <<>>
    /\ page = <<>>
    /\ extracted = <<>>
    /\ fetchIn = <<>>
    /\ fetchOut = <<>>

EnsureCall ==
    /\ pc = "ensure"
    /\ Len(ensureLog) < MaxCalls
    /\ \E net \in NetAnswers :
        LET r == download_ffmpeg(ffmpeg_folder, fs, net) IN
        /\ fs' = r.fs
        /\ ensureLog' = Append(ensureLog, [ret |-> r.ret, raised |-> r.raised, net |-> r.net])
        /\ ffmpeg_path' = r.ret
        /\ pc' = IF r.raised # NoRaise THEN "crashed" ELSE "ensure"
    /\ UNCHANGED <<printed, configFile, playlist_data, idx, videos, events, lastFetch,
                   page, extracted, fetchIn, fetchOut>>

NextEnsure == EnsureCall

SpecEnsure == InitEnsure /\ [][NextEnsure]_vars

(***************************************************************************)
(* extract_playlist_links on every page.                                   *)
(***************************************************************************)
InitExtract ==
    /\ pc = "extract"
    /\ page \in {<<p>> : p \in Pages}
    /\ fs = {}
    /\ ffmpeg_path = None
    /\ ensureLog = <<>>
    /\ printed = <<>>
    /\ configFile = <<>>
    /\ playlist_data = <<>>
    /\ idx = 0
    /\ videos = <<>>
    /\ events = <<>>
    /\ lastFetch = <<>>
    /\ extracted = <<>>
    /\ fetchIn = <<>>
    /\ fetchOut = <<>>

ExtractCall ==
    /\ pc = "extract"
    /\ extracted' = <<extract_playlist_links(page[1])>>
    /\ pc' = "extracted"
    /\ UNCHANGED <<fs, ffmpeg_path, ensureLog, printed, configFile, playlist_data, idx,
                   videos, events, lastFetch, page, fetchIn, fetchOut>>

NextExtract == ExtractCall

SpecExtract == InitExtract /\ [][NextExtract]_vars

(***************************************************************************)
(* download_audio and download_video on every list of entries.             *)
(***************************************************************************)
FetchInputs ==
    {[op |-> o, videos |-> vs, fails |-> F] :
        o \in {"download_audio", "download_video"},
        vs \in SeqsUpTo(Entries, MaxVideos),
        F \in SUBSET (1..MaxVideos)}

InitFetch ==
    /\ pc = "call"
    /\ fetchIn \in {<<x>> : x \in {y \in FetchInputs : y.fails \subseteq 1..Len(y.videos)}}
    /\ fs = {}
    /\ ffmpeg_path = DirAt(ffmpeg_folder, 0)
    /\ ensureLog = <<>>
    /\ printed = <<>>
    /\ configFile = <<>>
    /\ playlist_data = <<>>
    /\ idx = 0
    /\ videos = <<>>
    /\ events = <<>>
    /\ lastFetch = <<>>
    /\ page = <<>>
    /\ extracted = <<>>
    /\ fetchOut = <<>>

CallAudio ==
    /\ pc = "call"
    /\ fetchIn[1].op = "download_audio"
    /\ fetchOut' = <<download_audio(fetchIn[1].videos, ffmpeg_path, fetchIn[1].fails)>>
    /\ pc' = "returned"
    /\ UNCHANGED <<fs, ffmpeg_path, ensureLog, printed, configFile, playlist_data, idx,
                   videos, events, lastFetch, page, extracted, fetchIn>>

CallVideo ==
    /\ pc = "call"
    /\ fetchIn[1].op = "download_video"
    /\ fetchOut' = <<download_video(fetchIn[1].videos, ffmpeg_path, fetchIn[1].fails)>>
    /\ pc' = "returned"
    /\ UNCHANGED <<fs, ffmpeg_path, ensureLog, printed, configFile, playlist_data, idx,
                   videos, events, lastFetch, page, extracted, fetchIn>>

NextFetch == CallAudio \/ CallVideo

SpecFetch == InitFetch /\ [][NextFetch]_vars

(***************************************************************************)
(* The properties.                                                         *)
(***************************************************************************)
Range(f) == {f[i] : i \in DOMAIN f}
ErrorResults == {"Error downloading audio", "Error downloading video"}

\* C1: download_audio and download_video attempt every entry exactly once, in
\* the order of the sequence, whichever downloads raise: no failed entry is
\* tried again, a failure never stops the entries after it, and the routine
\* returns normally.
C1_EveryEntryAttemptedOnce ==
    pc = "returned" =>
        LET inp == fetchIn[1]
            out == fetchOut[1]
        IN  /\ out.raised = NoRaise
            /\ Len(out.attempts) = Len(inp.videos)
            /\ \A i \in 1..Len(inp.videos) :
                  /\ i <= Len(out.attempts)
                  /\ out.attempts[i].url = inp.videos[i].link
                  /\ (i \in inp.fails) <=> (out.attempts[i].result \in ErrorResults)

\* Three entries, the download of the second raises, audio mode.
C1_Witness ==
    /\ pc = "returned"
    /\ fetchIn[1].op = "download_audio"
    /\ Len(fetchIn[1].videos) = 3
    /\ fetchIn[1].fails = {2}
    /\ Len(fetchOut[1].attempts) = 3
    /\ fetchOut[1].attempts[3].result = "Downloaded audio"

ProvisioningFailed ==
    /\ ensureLog # <<>>
    /\ (ensureLog[1].raised # NoRaise \/ ensureLog[1].ret = None)

\* C2: when provisioning fails the driver is in Abort, has printed the
\* failure notice and has ended, and neither the configuration was read nor
\* a page extracted nor a download routine called.
C2_FailureAbortsWithNotice ==
    ProvisioningFailed =>
        /\ pc = "aborted"
        /\ FailedNotice \in Range(printed)
        /\ events = <<>>
        /\ configFile = <<>>

\* The part of C2 that the code keeps: no work after a failed provisioning.
NoWorkAfterFailedProvisioning ==
    ProvisioningFailed =>
        /\ pc \in {"aborted", "crashed"}
        /\ events = <<>>
        /\ configFile = <<>>
        /\ lastFetch = <<>>

\* The four failures the specification names for the extraction.
FirstBlobOf(p) == p.scripts[FirstMatch([i \in 1..Len(p.scripts) |-> p.scripts[i].text])].blob
NoScriptMatches(p) == \A i \in 1..Len(p.scripts) : p.scripts[i].text # "match"
NamedFailure(p) ==
    \/ p.status # "ok"
    \/ NoScriptMatches(p)
    \/ ~FirstBlobOf(p).valid
    \/ \E j \in 1..Len(NavKeys) : FirstBlobOf(p).data = ChainTo(1, j - 1, EmptyDict)

\* C3: extract_playlist_links never fails its caller: no exception leaves
\* it, and on a failed fetch, a page without matching script, an invalid
\* blob or a missing key of the navigation path it returns the empty list.
C3_ExtractNeverRaises ==
    pc = "extracted" =>
        /\ extracted[1].raised = NoRaise
        /\ NamedFailure(page[1]) => extracted[1].ret = <<>>

\* The part of C3 that the code keeps: the four named failures give the empty list.
NamedFailuresGiveEmpty ==
    (pc = "extracted" /\ NamedFailure(page[1])) =>
        extracted[1].raised = NoRaise /\ extracted[1].ret = <<>>

\* Identifier and title of a well-formed item record, read off the record.
RendererOf(item) ==
    IF has_key(item.v, "playlistPanelVideoRenderer")
    THEN value_of(item.v, "playlistPanelVideoRenderer").v ELSE <<>>
RecordId(item) ==
    IF has_key(RendererOf(item), "navigationEndpoint")
    THEN value_of(value_of(value_of(RendererOf(item), "navigationEndpoint").v,
                           "watchEndpoint").v, "videoId").v
    ELSE ""
RecordTitle(item) ==
    IF has_key(RendererOf(item), "title")
    THEN value_of(value_of(RendererOf(item), "title").v, "simpleText")
    ELSE JStr(NoTitle)
HasIdentifier(item) == RecordId(item) # ""

WellFormedPage(p) ==
    /\ p.status = "ok"
    /\ ~NoScriptMatches(p)
    /\ FirstBlobOf(p) \in ListBlobs(WellFormedItems, MaxItems)
RECURSIVE Descend(_, _)
Descend(x, i) == IF i > Len(NavKeys) THEN x ELSE Descend(value_of(x.v, NavKeys[i]), i + 1)
ItemsOfPage(p) == Descend(FirstBlobOf(p).data, 1).v

\* C4: for a well-formed blob of N item records, K of them with a non-empty
\* identifier, the extraction returns exactly K entries in the order of the
\* records, each with the watch URL of its identifier and the record's title
\* or "No Title"; no entry has an empty identifier.
C4_ExactlyTheIdentifiedItems ==
    (pc = "extracted" /\ WellFormedPage(page[1])) =>
        LET kept == SelectSeq(ItemsOfPage(page[1]), HasIdentifier)
            ret == extracted[1].ret
        IN  /\ extracted[1].raised = NoRaise
            /\ Len(ret) = Len(kept)
            /\ \A i \in 1..Len(kept) :
                  /\ i <= Len(ret)
                  /\ ret[i].link = WatchUrl \o RecordId(kept[i])
                  /\ ret[i].title = RecordTitle(kept[i])
            /\ \A i \in 1..Len(ret) : ret[i].link # WatchUrl

\* Two records: the first has an empty identifier, the second no title.
C4_Witness ==
    /\ pc = "extracted"
    /\ WellFormedPage(page[1])
    /\ ItemsOfPage(page[1]) = <<MkItem(<<"Song A">>, <<"">>), MkItem(<<>>, <<"xyz789">>)>>
    /\ extracted[1].ret = <<[title |-> JStr(NoTitle), link |-> WatchUrl \o "xyz789"]>>

\* C5: of two calls of download_ffmpeg in a row on the same folder, the
\* first of which returned the directory of the binary, the second makes no
\* network call and returns the same directory.
C5_SecondCallNoNetwork ==
    (/\ Len(ensureLog) >= 2
     /\ ensureLog[1].raised = NoRaise
     /\ ensureLog[1].ret # None) =>
        /\ ensureLog[2].net = 0
        /\ ensureLog[2].raised = NoRaise
        /\ ensureLog[2].ret = ensureLog[1].ret

\* The part of C5 that the code keeps: after a call that found ffmpeg.exe
\* directly in the folder, the next call makes no network call and returns
\* the folder again.
FastPathNoNetwork ==
    \A k \in 2..Len(ensureLog) :
        (ensureLog[k - 1].net = 0 /\ ensureLog[k - 1].raised = NoRaise)
            => /\ ensureLog[k].net = 0
               /\ ensureLog[k].raised = NoRaise
               /\ ensureLog[k].ret = ensureLog[k - 1].ret

Ended == pc \in {"done", "aborted", "crashed"}
FetchOps == {"download_audio", "download_video"}

\* C6: once read_json_file has returned, the run ends only after every
\* descriptor was processed: no descriptor stops the loop.
C6_LoopProcessesEveryDescriptor ==
    (Ended /\ configFile # <<>> /\ configFile[1].kind # "undecodable") =>
        /\ pc = "done"
        /\ idx = Len(playlist_data) + 1
        /\ \A i \in 1..Len(playlist_data) :
              \E k \in 1..Len(events) : events[k].i = i /\ events[k].op \in FetchOps

ReadEvent == [op |-> "read_json_file", i |-> 0, url |-> ""]
FlagInFile(o) == "with_video" \in DOMAIN o /\ o["with_video"] = "true"
\* The k-th call of a run, k >= 2, as the configuration file prescribes it.
PrescribedEvent(k) ==
    LET i == k \div 2
        o == configFile[1].objs[i]
    IN  [op |-> IF k % 2 = 0 THEN "extract_playlist_links"
                ELSE IF FlagInFile(o) THEN "download_video" ELSE "download_audio",
         i |-> i,
         url |-> o["link"]]

\* C7: after a successful provisioning the configuration is read exactly
\* once; the descriptors are handled in configuration order, each by one
\* extraction followed by exactly one download routine on the extracted
\* entries, download_video when the flag is true and download_audio
\* otherwise; the next descriptor starts only after that routine returned.
C7_OneFetchPerDescriptorInOrder ==
    /\ events # <<>> =>
          /\ ensureLog[1].raised = NoRaise /\ ensureLog[1].ret # None
          /\ events[1] = ReadEvent
    /\ \A k \in 2..Len(events) :
          /\ k \div 2 <= Len(configFile[1].objs)
          /\ "link" \in DOMAIN configFile[1].objs[k \div 2]
          /\ events[k] = PrescribedEvent(k)
    /\ pc \in {"loop", "done"} => Len(events) = 2 * idx - 1
    /\ pc = "fetch" => Len(events) = 2 * idx
    /\ pc = "done" => Len(events) = 2 * Len(playlist_data) + 1
    /\ lastFetch # <<>> =>
          LET c == lastFetch[1] IN
          /\ events[Len(events)] = [op |-> c.op, i |-> c.i, url |-> events[Len(events)].url]
          /\ c.op \in FetchOps
          /\ c.videos = videos
          /\ c.out.raised = NoRaise
          /\ Len(c.out.attempts) = Len(videos)
          /\ \A j \in 1..Len(videos) :
                /\ j <= Len(c.out.attempts)
                /\ c.out.attempts[j].url = videos[j].link
                /\ c.out.attempts[j].outtmpl =
                      OutTmpl(IF c.op = "download_audio" THEN "music" ELSE "videos",
                              videos[j].title)

\* Two descriptors, the first with the flag true, the second without flag,
\* whose page holds Song A: the audio routine ran once, into music/Song A.
C7_Witness ==
    /\ pc = "done"
    /\ Len(events) = 5
    /\ events[3].op = "download_video"
    /\ events[5].op = "download_audio"
    /\ "with_video" \notin DOMAIN playlist_data[2]
    /\ lastFetch # <<>>
    /\ Len(lastFetch[1].out.attempts) = 1
    /\ lastFetch[1].out.attempts[1].outtmpl = "music/Song A.%(ext)s"
    /\ lastFetch[1].out.attempts[1].url = "https://www.youtube.com/watch?v=abc123"

\* C8: read_json_file returns the empty list, and raises nothing, for a
\* missing file and for a file whose content is not valid JSON; the driver
\* then processes no playlist and exits normally.
C8_BadConfigGivesNoPlaylists ==
    (configFile # <<>> /\ configFile[1].kind \in {"missing", "invalid", "undecodable"}) =>
        /\ playlist_data = <<>>
        /\ pc \in {"loop", "done"}
        /\ pc = "loop" => idx > Len(playlist_data)
        /\ events = <<ReadEvent>>
        /\ lastFetch = <<>>
        /\ printed # <<>>

\* The part of C8 that the code keeps: a missing file and a text that is no
\* JSON give the empty list, a diagnostic and a run that does nothing more.
CaughtConfigErrorsGiveNoPlaylists ==
    (configFile # <<>> /\ configFile[1].kind \in {"missing", "invalid"}) =>
        /\ playlist_data = <<>>
        /\ pc \in {"loop", "done"}
        /\ pc = "loop" => idx > Len(playlist_data)
        /\ events = <<ReadEvent>>
        /\ printed # <<>>

WellFormedConfig ==
    /\ configFile # <<>>
    /\ configFile[1].kind = "json"
    /\ \A i \in 1..Len(configFile[1].objs) : "link" \in DOMAIN configFile[1].objs[i]

\* C9: for a valid JSON array of well-formed descriptors read_json_file
\* returns a list of the same length and order, and a descriptor without
\* with_video is handled as with_video = false.
C9_SameLengthAndOrder ==
    WellFormedConfig =>
        LET objs == configFile[1].objs IN
        /\ Len(playlist_data) = Len(objs)
        /\ \A i \in 1..Len(objs) :
              /\ i <= Len(playlist_data)
              /\ playlist_data[i]["link"] = objs[i]["link"]
              /\ with_video_of(playlist_data[i]) = FlagInFile(objs[i])
              /\ "with_video" \notin DOMAIN objs[i] =>
                    /\ "with_video" \notin DOMAIN playlist_data[i]
                    /\ \A k \in 1..Len(events) :
                          (events[k].i = i /\ events[k].op \in FetchOps)
                              => events[k].op = "download_audio"

\* Two descriptors with different links, the first without flag, both handled.
C9_Witness ==
    /\ pc = "done"
    /\ WellFormedConfig
    /\ Len(playlist_data) = 2
    /\ playlist_data[1] = [link |-> "https://x/playlist1"]
    /\ playlist_data[2] = [link |-> "https://x/playlist2", with_video |-> FALSE]
    /\ events[3] = [op |-> "download_audio", i |-> 1, url |-> "https://x/playlist1"]
    /\ events[5] = [op |-> "download_audio", i |-> 2, url |-> "https://x/playlist2"]

HasExe(fsys, dir) == \E n \in ExeNames : join(dir, n) \in fsys
ExeDepths == {d \in 0..MaxDepth : HasExe(fs, DirAt(ffmpeg_folder, d))}
Shallowest(D) == CHOOSE d \in D : \A e \in D : d <= e

\* C10: when the executable is not yet there, download_ffmpeg returns after
\* the extraction the directory of the first executable of the walk of the
\* folder, and None exactly when the folder holds none; so every directory
\* it returns, and every directory handed to a download routine, directly
\* holds the executable.
C10_ReturnedDirHoldsBinary ==
    ensureLog # <<>> =>
        LET c == ensureLog[1] IN
        /\ (c.net = 1 /\ c.raised = NoRaise) =>
              /\ c.ret = None <=> ExeDepths = {}
              /\ ExeDepths # {} => c.ret = DirAt(ffmpeg_folder, Shallowest(ExeDepths))
        /\ (c.raised = NoRaise /\ c.ret # None) => HasExe(fs, c.ret)
        /\ lastFetch # <<>> =>
              /\ lastFetch[1].ffmpeg_path = c.ret
              /\ HasExe(fs, lastFetch[1].ffmpeg_path)
              /\ \A j \in 1..Len(lastFetch[1].out.attempts) :
                    lastFetch[1].out.attempts[j].ffmpeg_location = c.ret

\* The archive was fetched, the binary lies two levels down, a download ran with it.
C10_Witness ==
    /\ ensureLog # <<>>
    /\ ensureLog[1].net = 1
    /\ ensureLog[1].ret = <<ffmpeg_folder, SubDir, SubDir>>
    /\ lastFetch # <<>>
    /\ Len(lastFetch[1].out.attempts) = 1
    /\ lastFetch[1].out.attempts[1].ffmpeg_location = <<ffmpeg_folder, SubDir, SubDir>>

====
